---- MODULE Spec2Model ----
(***************************************************************************)
(* Model of udtube's conllu_datasets.py: the map-style dataset             *)
(* (ConlluMapDataset), which fits three sklearn LabelEncoders, dumps them  *)
(* with joblib and buffers the encoded corpus, and the iterable dataset    *)
(* (ConlluIterDataset), which loads the dumped encoders and encodes        *)
(* sentences lazily from an open file handle.                              *)
(*                                                                         *)
(* Strings are sequences of character codes, so that the ordering which    *)
(* LabelEncoder.fit imposes on its classes (numpy.unique: sorted by code   *)
(* point) is computed and not assumed.                                     *)
(***************************************************************************)
EXTENDS Integers, Sequences, FiniteSets, TLC

VARIABLES corpus,     \* content of the CoNLL-U file: a sequence of sentences
          disk,       \* the encoder directory path_name and its three joblib files
          map,        \* the ConlluMapDataset under construction / constructed
          got,        \* outcome of the last __len__ / __getitem__ call on map
          it,         \* the ConlluIterDataset object
          fh,         \* the file handle self.conllu_file of the iterable dataset
          gens,       \* the generators returned by __iter__, by caller slot
          yielded,    \* log of the records yielded by the generators, in order
          cs, ct, crev, cscript, cout, cpc   \* edit-script codec harness

vars == <<corpus, disk, map, got, it, fh, gens, yielded,
          cs, ct, crev, cscript, cout, cpc>>

----------------------------------------------------------------------------
(* Bounds *)

\* longest corpus, in sentences
MaxSents == 2
\* longest string given to the edit-script codec harness
MaxLen == 3

----------------------------------------------------------------------------
(* Strings *)

Range(s) == {s[i] : i \in 1..Len(s)}

Min(a, b) == IF a <= b THEN a ELSE b

\* str.lower() on ASCII: 'A'..'Z' -> 'a'..'z'
LowerChar(c) == IF c >= 65 /\ c <= 90 THEN c + 32 ELSE c

Lower(s) == [i \in 1..Len(s) |-> LowerChar(s[i])]

Rev(s) == [i \in 1..Len(s) |-> s[Len(s) + 1 - i]]

\* code-point order of two strings, as numpy sorts them
StrLess(a, b) ==
    \E i \in 1..(Min(Len(a), Len(b)) + 1) :
        /\ \A j \in 1..(i - 1) : a[j] = b[j]
        /\ \/ i > Len(a) /\ i <= Len(b)
           \/ i <= Len(a) /\ i <= Len(b) /\ a[i] < b[i]

\* "[PAD]"
PAD_TAG == <<91, 80, 65, 68, 93>>

\* ADJ ADP ADV AUX CCONJ DET INTJ NOUN NUM PART PRON PROPN PUNCT SCONJ SYM VERB X _
UPOS_CLASSES ==
    << <<65, 68, 74>>, <<65, 68, 80>>, <<65, 68, 86>>, <<65, 85, 88>>,
       <<67, 67, 79, 78, 74>>, <<68, 69, 84>>, <<73, 78, 84, 74>>,
       <<78, 79, 85, 78>>, <<78, 85, 77>>, <<80, 65, 82, 84>>,
       <<80, 82, 79, 78>>, <<80, 82, 79, 80, 78>>, <<80, 85, 78, 67, 84>>,
       <<83, 67, 79, 78, 74>>, <<83, 89, 77>>, <<86, 69, 82, 66>>,
       <<88>>, <<95>> >>

\* The value None, which parse_nullable_value returns for the column "_".
\* It is written as a one-character string above every code point: sklearn
\* sorts the string classes and puts a missing value (None) after them.
NoneCode == 1114112
NoneLabel == <<NoneCode>>

\* "_"
Underscore == <<95>>

\* conllu.parser.parse_nullable_value
ParseNullable(v) == IF v = Underscore THEN NoneLabel ELSE v

----------------------------------------------------------------------------
(* edit_scripts: the module imported at line 8.  Its code is not part of    *)
(* the sources at hand; it is modelled from its specification: a common-    *)
(* prefix / common-suffix split with a replaced middle segment.             *)

\* length of the longest common prefix of s and t
CommonPrefix(s, t) ==
    CHOOSE p \in 0..Min(Len(s), Len(t)) :
        /\ \A j \in 1..p : s[j] = t[j]
        /\ \A q \in (p + 1)..Min(Len(s), Len(t)) : \E j \in 1..q : s[j] # t[j]

\* length of the longest common suffix of s and t that leaves the prefix p alone:
\* p + suffix <= min(len(s), len(t))
CommonSuffix(s, t, p) ==
    LET room == Min(Len(s), Len(t)) - p
    IN CHOOSE k \in 0..room :
        /\ \A j \in 1..k : s[Len(s) + 1 - j] = t[Len(t) + 1 - j]
        /\ \A q \in (k + 1)..room :
               \E j \in 1..q : s[Len(s) + 1 - j] # t[Len(t) + 1 - j]

\* The overlap constraint dropped: the suffix is searched over the whole strings.
ComputeScriptOverlapping(s, t, rev) ==
    LET p == CommonPrefix(s, t)
        room == Min(Len(s), Len(t))
        k == CHOOSE k \in 0..room :
                /\ \A j \in 1..k : s[Len(s) + 1 - j] = t[Len(t) + 1 - j]
                /\ \A q \in (k + 1)..room :
                       \E j \in 1..q : s[Len(s) + 1 - j] # t[Len(t) + 1 - j]
    IN [pre |-> p, suf |-> k, del |-> Len(s) - p - k,
        ins |-> SubSeq(t, p + 1, Len(t) - k), rev |-> rev]

\* compute(source, target) on strings already put in the search direction
ComputeScript(s, t, rev) ==
    LET p == CommonPrefix(s, t)
        k == CommonSuffix(s, t, p)
    IN [pre |-> p, suf |-> k, del |-> Len(s) - p - k,
        ins |-> SubSeq(t, p + 1, Len(t) - k), rev |-> rev]

\* edit_scripts.EditScript(istring, ostring)
EditScript(s, t) == ComputeScript(s, t, FALSE)

\* edit_scripts.ReverseEditScript(istring, ostring): the same on reversed strings
ReverseEditScript(s, t) == ComputeScript(Rev(s), Rev(t), TRUE)

\* apply(script, source), the split points clamped to the source's length
ApplyScript(script, src) ==
    LET x == IF script.rev THEN Rev(src) ELSE src
        p == Min(script.pre, Len(x))
        k == Min(script.suf, Len(x) - p)
        out == SubSeq(x, 1, p) \o script.ins \o SubSeq(x, Len(x) - k + 1, Len(x))
    IN IF script.rev THEN Rev(out) ELSE out

\* str(script): direction ('+' or '-'), the two lengths as digits, the insertion
ScriptStr(script) ==
    <<(IF script.rev THEN 45 ELSE 43), 48 + script.pre, 48 + script.suf>>
        \o script.ins

----------------------------------------------------------------------------
(* sklearn.preprocessing.LabelEncoder, as the datasets use it *)

\* LabelEncoder.fit(y): classes_ is the sorted array of the distinct values of y
Fit(y) ==
    LET S == Range(y)
    IN [i \in 1..Cardinality(S) |->
           CHOOSE x \in S : Cardinality({z \in S : StrLess(z, x)}) = i - 1]

\* the code of a label: its index in classes_ (0-based)
Code(classes, label) == (CHOOSE i \in 1..Len(classes) : classes[i] = label) - 1

\* LabelEncoder.transform(y): ValueError on a label that is not in classes_
Transform(classes, y) ==
    IF \A i \in 1..Len(y) : y[i] \in Range(classes)
    THEN [ok |-> TRUE, codes |-> [i \in 1..Len(y) |-> Code(classes, y[i])]]
    ELSE [ok |-> FALSE, codes |-> <<>>]

\* LabelEncoder.inverse_transform on one code
Decode(classes, code) == classes[code + 1]

----------------------------------------------------------------------------
(* The corpus: sentences of tokens with the columns form, lemma, upos, feats *)

Tok(form, lemma, upos, feats) ==
    [form |-> form, lemma |-> lemma, upos |-> upos, feats |-> feats]

\* Ran/run VERB Tense=Past
TokRan == Tok(<<82, 97, 110>>, <<114, 117, 110>>, <<86, 69, 82, 66>>,
              <<84, 101, 110, 115, 101, 61, 80, 97, 115, 116>>)
\* fast/fast ADV _
TokFast == Tok(<<102, 97, 115, 116>>, <<102, 97, 115, 116>>, <<65, 68, 86>>, <<95>>)
\* x/x _ [PAD]   (placeholder tag; a feats column that spells the pad tag)
TokX == Tok(<<120>>, <<120>>, <<95>>, <<91, 80, 65, 68, 93>>)
\* and/and CONJ _   (a tag of UD v1, outside UPOS_CLASSES)
TokAnd == Tok(<<97, 110, 100>>, <<97, 110, 100>>, <<67, 79, 78, 74>>, <<95>>)

Sentences == { <<TokRan, TokFast>>, <<TokX>>, <<TokAnd, TokRan>> }

SeqsUpTo(S, n) == UNION {[1..k -> S] : k \in 0..n}

Corpora == SeqsUpTo(Sentences, MaxSents)

\* tk_list.metadata["text"]: the sentence's surface forms
Text(sentence) == [i \in 1..Len(sentence) |-> sentence[i].form]

\* all tokens of the corpus in file order
Flatten(c) ==
    LET F[i \in 0..Len(c)] == IF i = 0 THEN <<>> ELSE F[i - 1] \o c[i]
    IN F[Len(c)]

----------------------------------------------------------------------------
(* Per-token and per-sentence computations of the two datasets *)

\* self.e_script(form.lower(), lemma.lower()), then str() of it
LemmaRule(reverse_edits, tok) ==
    ScriptStr(IF reverse_edits
              THEN ReverseEditScript(Lower(tok.form), Lower(tok.lemma))
              ELSE EditScript(Lower(tok.form), Lower(tok.lemma)))

\* tok["feats"], read through OVERRIDDEN_FIELD_PARSERS
Feats(tok) == ParseNullable(tok.feats)

\* the label of a token that _get_all_classes(lname) collects
ClassOf(lname, reverse_edits, tok) ==
    IF lname = "lemma" THEN LemmaRule(reverse_edits, tok) ELSE Feats(tok)

\* ConlluMapDataset._get_all_classes: the labels in order of first occurrence
GetAllClasses(c, lname, reverse_edits) ==
    LET toks == Flatten(c)
        F[i \in 0..Len(toks)] ==
            IF i = 0 THEN <<>>
            ELSE LET l == ClassOf(lname, reverse_edits, toks[i])
                     classes == F[i - 1]
                 IN IF l \in Range(classes) THEN classes ELSE Append(classes, l)
    IN F[Len(toks)]

\* the tuple built from the three transforms, or the ValueError of the first
\* transform that meets a label outside its classes_
Assemble(sentence, u, l, f) ==
    IF u.ok /\ l.ok /\ f.ok
    THEN [ok |-> TRUE,
          rec |-> [text |-> Text(sentence), uposes |-> u.codes,
                   lemma_rules |-> l.codes, ufeats |-> f.codes]]
    ELSE [ok |-> FALSE,
          rec |-> [text |-> <<>>, uposes |-> <<>>, lemma_rules |-> <<>>,
                   ufeats |-> <<>>]]

\* body of the sentence loop of ConlluMapDataset._get_data
MapRecord(enc, reverse_edits, sentence) ==
    Assemble(sentence,
        Transform(enc.upos, [i \in 1..Len(sentence) |-> sentence[i].upos]),
        Transform(enc.lemma,
                  [i \in 1..Len(sentence) |-> LemmaRule(reverse_edits, sentence[i])]),
        Transform(enc.ufeats, [i \in 1..Len(sentence) |-> Feats(sentence[i])]))

\* The lemma rules looked up in the feats encoder and the feats in the lemma
\* encoder.
IterRecordSwapped(enc, reverse_edits, sentence) ==
    Assemble(sentence,
        Transform(enc.upos, [i \in 1..Len(sentence) |-> sentence[i].upos]),
        Transform(enc.ufeats,
                  [i \in 1..Len(sentence) |-> LemmaRule(reverse_edits, sentence[i])]),
        Transform(enc.lemma, [i \in 1..Len(sentence) |-> Feats(sentence[i])]))

\* body of the sentence loop of ConlluIterDataset.__iter__._generator
IterRecord(enc, reverse_edits, sentence) ==
    Assemble(sentence,
        Transform(enc.upos, [i \in 1..Len(sentence) |-> sentence[i].upos]),
        Transform(enc.lemma,
                  [i \in 1..Len(sentence) |-> LemmaRule(reverse_edits, sentence[i])]),
        Transform(enc.ufeats, [i \in 1..Len(sentence) |-> Feats(sentence[i])]))

\* line 84: self.upos_encoder.fit(self.UPOS_CLASSES + [self.PAD_TAG])
UposFitted == Fit(UPOS_CLASSES \o <<PAD_TAG>>)

\* ConlluMapDataset._fit_label_encoders, lines 84-86: the three fitted classes_
FitLabelEncoders(feats_classes, lemma_classes) ==
    [upos   |-> UposFitted,
     ufeats |-> Fit(feats_classes \o <<PAD_TAG>>),
     lemma  |-> Fit(lemma_classes \o <<PAD_TAG>>)]

NoEncoders == [upos |-> <<>>, ufeats |-> <<>>, lemma |-> <<>>]

\* The negative indices rejected.
ListIndexNonNegative(list, idx) ==
    IF idx >= 0 /\ idx < Len(list)
    THEN [ok |-> TRUE, pos |-> idx + 1]
    ELSE [ok |-> FALSE, pos |-> 0]

\* list.__getitem__(idx), as self.data_set[idx] evaluates it: the position
\* (1-based) of the element returned, or IndexError
ListIndex(list, idx) ==
    IF idx >= 0 /\ idx < Len(list) THEN [ok |-> TRUE, pos |-> idx + 1]
    ELSE IF idx < 0 /\ idx >= 0 - Len(list)
         THEN [ok |-> TRUE, pos |-> Len(list) + idx + 1]
         ELSE [ok |-> FALSE, pos |-> 0]

----------------------------------------------------------------------------
(* The encoder directory *)

\* a joblib file: absent, complete, or cut short by a failed dump
NoFile == [st |-> "absent", classes |-> <<>>]

\* joblib.dump(encoder, file): the file holds the encoder's classes_
Dumped(classes) == [st |-> "complete", classes |-> classes]

\* what a dump that raises leaves of the file it was writing
Truncated == [st |-> "truncated", classes |-> <<>>]

NoDir == [exists |-> FALSE, upos |-> NoFile, ufeats |-> NoFile, lemma |-> NoFile]

EmptyDir == [exists |-> TRUE, upos |-> NoFile, ufeats |-> NoFile, lemma |-> NoFile]

\* the encoders a ConlluMapDataset over corpus c fits
EncodersOf(c, reverse_edits) ==
    FitLabelEncoders(GetAllClasses(c, "feats", reverse_edits),
                     GetAllClasses(c, "lemma", reverse_edits))

\* the directory as an earlier ConlluMapDataset over corpus c left it
DirAfter(c, reverse_edits) ==
    LET enc == EncodersOf(c, reverse_edits)
    IN [exists |-> TRUE, upos |-> Dumped(enc.upos),
        ufeats |-> Dumped(enc.ufeats), lemma |-> Dumped(enc.lemma)]

\* the corpus an earlier run fitted
EarlierCorpora == { << <<TokRan, TokFast>> >> }

InitialDisks == {NoDir, EmptyDir} \cup {DirAfter(c, FALSE) : c \in EarlierCorpora}

----------------------------------------------------------------------------
(* Initial state: a corpus file on disk, the encoder directory as some      *)
(* earlier run left it, and no dataset object yet.                          *)

NoRecord == [text |-> <<>>, uposes |-> <<>>, lemma_rules |-> <<>>, ufeats |-> <<>>]

MapNone == [pc |-> "none", reverse_edits |-> FALSE, feats_classes |-> <<>>,
            lemma_classes |-> <<>>, enc |-> NoEncoders, data_set |-> <<>>,
            error |-> "none"]

IterNone == [pc |-> "none", has_file |-> FALSE, has_enc |-> FALSE,
             enc |-> NoEncoders, reverse_edits |-> FALSE,
             exhausted |-> FALSE, error |-> "none"]

GotNone == [call |-> "none", idx |-> 0, ok |-> TRUE, len |-> 0, rec |-> NoRecord]

FhNone == [open |-> FALSE, pos |-> 0]

\* the variables in which a caller keeps the generators __iter__ returns
Gens == {"g1", "g2"}

NoScript == [pre |-> 0, suf |-> 0, del |-> 0, ins |-> <<>>, rev |-> FALSE]

CodecOff ==
    /\ cs = <<>> /\ ct = <<>> /\ crev = FALSE /\ cout = <<>> /\ cpc = "off"
    /\ cscript = NoScript

DatasetVars == <<corpus, disk, map, got, it, fh, gens, yielded>>
CodecVars == <<cs, ct, crev, cscript, cout, cpc>>

Init ==
    /\ corpus \in Corpora
    /\ disk \in InitialDisks
    /\ map = MapNone
    /\ got = GotNone
    /\ it = IterNone
    /\ fh = FhNone
    /\ gens = [g \in Gens |-> "none"]
    /\ yielded = <<>>
    /\ CodecOff

----------------------------------------------------------------------------
(* ConlluMapDataset *)

\* the points at which persisting can stop: 0 (it does not), or dump 1, 2, 3
Stops == 0..3

\* lines 87-92 of _fit_label_encoders: the directory made if absent, then the
\* three encoders dumped in turn.  stop = 0: all three dumps succeed; stop = k:
\* the k-th dump does not complete (os.mkdir or joblib.dump raises, or the
\* process is interrupted), leaving its file cut short (cut) or untouched.
Persist(d, enc, stop, cut) ==
    LET wrote(k, old, classes) ==
            IF stop = 0 \/ k < stop THEN Dumped(classes)
            ELSE IF k = stop /\ cut THEN Truncated
            ELSE old
    IN [exists |-> d.exists \/ stop # 1 \/ cut,
        upos   |-> wrote(1, d.upos, enc.upos),
        ufeats |-> wrote(2, d.ufeats, enc.ufeats),
        lemma  |-> wrote(3, d.lemma, enc.lemma)]

\* _get_data (lines 113-136): every sentence encoded and buffered, or the
\* ValueError of the first transform that meets an unseen label
GetData(c, enc, reverse_edits) ==
    LET rs == [i \in 1..Len(c) |-> MapRecord(enc, reverse_edits, c[i])]
    IN IF \A i \in 1..Len(c) : rs[i].ok
       THEN [ok |-> TRUE, data |-> [i \in 1..Len(c) |-> rs[i].rec]]
       ELSE [ok |-> FALSE, data |-> <<>>]

\* ConlluMapDataset.__init__ (lines 53-80).  With an empty conllu_file the
\* dataset is left empty and without encoders (line 80).
MapInit(conllu_file, reverse_edits) ==
    /\ map.pc = "none"
    /\ IF ~conllu_file
       THEN /\ map' = [map EXCEPT !.pc = "ready", !.reverse_edits = reverse_edits]
            /\ disk' = disk
       ELSE LET fc == GetAllClasses(corpus, "feats", reverse_edits)
                lc == GetAllClasses(corpus, "lemma", reverse_edits)
                enc == FitLabelEncoders(fc, lc)
                data == GetData(corpus, enc, reverse_edits)
                fitted == [map EXCEPT !.reverse_edits = reverse_edits,
                                      !.feats_classes = fc,
                                      !.lemma_classes = lc,
                                      !.enc = enc]
            IN \E stop \in Stops, cut \in BOOLEAN :
                  /\ stop = 0 => ~cut
                  /\ disk' = Persist(disk, enc, stop, cut)
                  /\ map' = IF stop # 0
                            THEN [fitted EXCEPT !.pc = "failed", !.error = "OSError"]
                            ELSE IF ~data.ok
                            THEN [fitted EXCEPT !.pc = "failed",
                                                !.error = "ValueError"]
                            ELSE [fitted EXCEPT !.pc = "ready",
                                                !.data_set = data.data]
    /\ UNCHANGED <<corpus, got, it, fh, gens, yielded, CodecVars>>

\* __len__
MapLen ==
    /\ map.pc = "ready"
    /\ got' = [GotNone EXCEPT !.call = "len", !.len = Len(map.data_set)]
    /\ UNCHANGED <<corpus, disk, map, it, fh, gens, yielded, CodecVars>>

\* __getitem__(idx)
MapGetItem(idx) ==
    /\ map.pc = "ready"
    /\ LET r == ListIndex(map.data_set, idx)
       IN got' = [call |-> "getitem", idx |-> idx, ok |-> r.ok,
                  len |-> Len(map.data_set),
                  rec |-> IF r.ok THEN map.data_set[r.pos] ELSE NoRecord]
    /\ UNCHANGED <<corpus, disk, map, it, fh, gens, yielded, CodecVars>>

Indices == (0 - MaxSents - 1)..(MaxSents + 1)

----------------------------------------------------------------------------
(* ConlluIterDataset *)

\* joblib.load of the three files (lines 156-158): the first that is absent
\* raises FileNotFoundError, the first that is cut short EOFError
LoadError(d) ==
    LET first == IF d.upos.st # "complete" THEN d.upos
                 ELSE IF d.ufeats.st # "complete" THEN d.ufeats
                 ELSE d.lemma
    IN IF first.st = "complete" THEN "none"
       ELSE IF first.st = "absent" THEN "FileNotFoundError"
       ELSE "EOFError"

\* __init__ (lines 151-163)
IterInit(conllu_file, reverse_edits) ==
    /\ it.pc = "none"
    /\ fh' = IF conllu_file THEN [open |-> TRUE, pos |-> 0] ELSE fh
    /\ IF ~disk.exists
       THEN it' = [it EXCEPT !.pc = "ready", !.has_file = conllu_file,
                             !.reverse_edits = reverse_edits]
       ELSE IF LoadError(disk) # "none"
       THEN it' = [it EXCEPT !.pc = "failed", !.has_file = conllu_file,
                             !.error = LoadError(disk)]
       ELSE it' = [it EXCEPT !.pc = "ready", !.has_file = conllu_file,
                             !.has_enc = TRUE,
                             !.enc = [upos |-> disk.upos.classes,
                                      ufeats |-> disk.ufeats.classes,
                                      lemma |-> disk.lemma.classes],
                             !.reverse_edits = reverse_edits]
    /\ UNCHANGED <<corpus, disk, map, got, gens, yielded, CodecVars>>

\* __iter__ (lines 165-188): a new generator over the one file handle, which
\* reads nothing before its first next(); AttributeError when __init__ opened
\* no file
IterIter(g) ==
    /\ it.pc = "ready"
    /\ IF it.has_file
       THEN /\ gens' = [gens EXCEPT ![g] = "active"]
            /\ it' = it
       ELSE /\ gens' = gens
            /\ it' = [it EXCEPT !.error = "AttributeError"]
    /\ UNCHANGED <<corpus, disk, map, got, fh, yielded, CodecVars>>

\* The generator reads from a handle of its own, opened at the start of the file.
ReadPosOwnHandle(handle, g) == 0

\* where in the file the next sentence of generator g is read: the position of
\* the shared handle self.conllu_file
ReadPos(handle, g) == handle.pos

\* next() on generator g: one sentence read by parse_incr and encoded
IterNext(g) ==
    /\ it.pc = "ready"
    /\ gens[g] = "active"
    /\ LET at == ReadPos(fh, g)
       IN IF at >= Len(corpus)
          THEN /\ gens' = [gens EXCEPT ![g] = "finished"]
               /\ it' = [it EXCEPT !.exhausted = TRUE]
               /\ UNCHANGED <<fh, yielded>>
          ELSE /\ fh' = [fh EXCEPT !.pos = at + 1]
               /\ IF ~it.has_enc
                  THEN /\ gens' = [gens EXCEPT ![g] = "finished"]
                       /\ it' = [it EXCEPT !.error = "AttributeError"]
                       /\ yielded' = yielded
                  ELSE LET r == IterRecord(it.enc, it.reverse_edits, corpus[at + 1])
                       IN IF r.ok
                          THEN /\ yielded' = Append(yielded,
                                      [index |-> at, rec |-> r.rec])
                               /\ UNCHANGED <<gens, it>>
                          ELSE /\ gens' = [gens EXCEPT ![g] = "finished"]
                               /\ it' = [it EXCEPT !.error = "ValueError"]
                               /\ yielded' = yielded
    /\ UNCHANGED <<corpus, disk, map, got, CodecVars>>

\* The finalizer leaves the file open.
DelKeepsOpen(handle, has_file) == handle

\* __del__ (lines 190-192): the file closed if __init__ opened one
Del(handle, has_file) ==
    IF has_file THEN [handle EXCEPT !.open = FALSE] ELSE handle

\* the last reference to the dataset (and to its generators) is dropped
IterDiscard ==
    /\ it.pc \in {"ready", "failed"}
    /\ fh' = Del(fh, it.has_file)
    /\ it' = [it EXCEPT !.pc = "discarded"]
    /\ gens' = [g \in Gens |-> "none"]
    /\ UNCHANGED <<corpus, disk, map, got, yielded, CodecVars>>

----------------------------------------------------------------------------

\* A program that builds a ConlluMapDataset and indexes it.
NextMap ==
    \/ \E cf \in BOOLEAN, rev \in BOOLEAN : MapInit(cf, rev)
    \/ MapLen
    \/ \E idx \in Indices : MapGetItem(idx)

SpecMap == Init /\ [][NextMap]_vars

\* A program that builds a ConlluMapDataset (fitting and dumping the encoders)
\* and a ConlluIterDataset over the same file and directory, and iterates.
NextIter ==
    \/ \E cf \in BOOLEAN, rev \in BOOLEAN : MapInit(cf, rev)
    \/ \E cf \in BOOLEAN, rev \in BOOLEAN : IterInit(cf, rev)
    \/ \E g \in Gens : IterIter(g)
    \/ \E g \in Gens : IterNext(g)
    \/ IterDiscard

SpecIter == Init /\ [][NextIter]_vars

----------------------------------------------------------------------------
(* The edit-script codec on its own: a script computed from (cs, ct) in the  *)
(* direction crev, then applied to cs.                                       *)

\* 'a', 'b'
Alphabet == {97, 98}

Strings == SeqsUpTo(Alphabet, MaxLen)

InitCodec ==
    /\ corpus = <<>>
    /\ disk = NoDir
    /\ map = MapNone
    /\ got = GotNone
    /\ it = IterNone
    /\ fh = FhNone
    /\ gens = [g \in Gens |-> "none"]
    /\ yielded = <<>>
    /\ cs \in Strings
    /\ ct \in Strings
    /\ crev \in BOOLEAN
    /\ cscript = NoScript
    /\ cout = <<>>
    /\ cpc = "start"

\* self.e_script(source, target), lines 63-67 and 105-107
CodecCompute ==
    /\ cpc = "start"
    /\ cscript' = IF crev THEN ReverseEditScript(cs, ct) ELSE EditScript(cs, ct)
    /\ cpc' = "computed"
    /\ UNCHANGED <<DatasetVars, cs, ct, crev, cout>>

\* the script applied to the string it was computed from
CodecApply ==
    /\ cpc = "computed"
    /\ cout' = ApplyScript(cscript, cs)
    /\ cpc' = "applied"
    /\ UNCHANGED <<DatasetVars, cs, ct, crev, cscript>>

NextCodec == CodecCompute \/ CodecApply

SpecCodec == InitCodec /\ [][NextCodec]_vars

----------------------------------------------------------------------------
(* Properties *)

\* the map dataset has fitted its encoders (lines 84-86 were run)
MapFitted == map.enc # NoEncoders

\* the map dataset was constructed over a corpus file: encoders fitted and
\* dumped, corpus encoded
MapReady == map.pc = "ready" /\ MapFitted

\* the pad tag holds the last code of classes_, and no other class does
PadIsLast(classes) ==
    LET n == Cardinality(Range(classes) \ {PAD_TAG})
    IN /\ PAD_TAG \in Range(classes)
       /\ Code(classes, PAD_TAG) = n
       /\ Decode(classes, n) = PAD_TAG
       /\ \A l \in Range(classes) \ {PAD_TAG} : Code(classes, l) # n

\* C1: in each of the three fitted encoders the pad tag "[PAD]" has the highest
\* code: with n distinct classes other than the pad, encode("[PAD]") = n,
\* decode(n) = "[PAD]", and no other fitted class is encoded to n.
C1_PadCodeIsLast ==
    MapReady =>
        /\ PadIsLast(map.enc.upos)
        /\ PadIsLast(map.enc.ufeats)
        /\ PadIsLast(map.enc.lemma)

\* C2: the fitted UPOS encoder knows every UPOS label of the corpus besides the
\* closed tag set, so that encoding the same corpus in _get_data never meets
\* an unknown upos, feats or lemma-rule label (no ValueError).
C2_NoUnknownLabel ==
    (MapFitted /\ map.error # "OSError") =>
        /\ \A t \in Range(Flatten(corpus)) : t.upos \in Range(map.enc.upos)
        /\ \A i \in 1..Len(UPOS_CLASSES) : UPOS_CLASSES[i] \in Range(map.enc.upos)
        /\ \A t \in Range(Flatten(corpus)) : Feats(t) \in Range(map.enc.ufeats)
        /\ \A t \in Range(Flatten(corpus)) :
               LemmaRule(map.reverse_edits, t) \in Range(map.enc.lemma)
        /\ map.error # "ValueError"

\* C7: fitting fails when a discovered class set is empty or already holds the
\* pad tag: no dataset is ever constructed, with its encoders fitted and
\* dumped, from such a class set.
C7_FitRejectsBadClasses ==
    (MapReady /\ disk = [exists |-> TRUE, upos |-> Dumped(map.enc.upos),
                         ufeats |-> Dumped(map.enc.ufeats),
                         lemma |-> Dumped(map.enc.lemma)]) =>
        /\ map.feats_classes # <<>>
        /\ map.lemma_classes # <<>>
        /\ PAD_TAG \notin Range(map.feats_classes)
        /\ PAD_TAG \notin Range(map.lemma_classes)

\* C6 as claimed: __getitem__(idx) returns the idx-th buffered record for
\* 0 <= idx < len and raises IndexError for every other idx, the negative ones
\* included.
C6_IndexErrorOutsideRange ==
    got.call = "getitem" =>
        IF got.idx >= 0 /\ got.idx < Len(map.data_set)
        THEN got.ok /\ got.rec = map.data_set[got.idx + 1]
        ELSE ~got.ok

\* C6 as amended: __getitem__(idx) returns the idx-th buffered record for
\* 0 <= idx < len, the (len + idx)-th for -len <= idx < 0, and raises IndexError
\* for every other idx.
C6_GetItem ==
    got.call = "getitem" =>
        IF got.idx >= 0 /\ got.idx < Len(map.data_set)
        THEN got.ok /\ got.rec = map.data_set[got.idx + 1]
        ELSE IF got.idx < 0 /\ got.idx >= 0 - Len(map.data_set)
        THEN got.ok /\ got.rec = map.data_set[Len(map.data_set) + got.idx + 1]
        ELSE ~got.ok /\ got.rec = NoRecord

\* a negative index answered with the last of two buffered records
C6_Witness ==
    /\ got.call = "getitem" /\ got.idx = 0 - 1 /\ got.ok
    /\ Len(map.data_set) = 2
    /\ got.rec = map.data_set[2]
    /\ map.data_set[1] # map.data_set[2]

\* the iterable dataset loaded the encoders that the map dataset fitted and
\* dumped, and uses the same direction of edit scripts on the same file
SameEncoders ==
    /\ MapReady
    /\ it.has_enc /\ it.has_file
    /\ it.enc = map.enc
    /\ it.reverse_edits = map.reverse_edits

\* C3: once the map dataset has fitted and dumped the encoders, an iterable
\* dataset over the same file, directory and direction yields as its i-th
\* record the record the map dataset holds at index i, and exactly len records
\* once exhausted.
C3_Parity ==
    SameEncoders =>
        /\ Len(yielded) <= Len(map.data_set)
        /\ \A i \in 1..Len(yielded) :
               i <= Len(map.data_set) /\ yielded[i].rec = map.data_set[i]
        /\ it.exhausted => Len(yielded) = Len(map.data_set)

\* both records of a two-sentence corpus yielded, with reversed edit scripts
C3_Witness ==
    /\ SameEncoders /\ it.exhausted /\ map.reverse_edits
    /\ Len(yielded) = 2 /\ Len(map.data_set) = 2
    /\ yielded[1].rec # yielded[2].rec

\* C5: an iterable dataset is never handed to the caller without its three
\* encoders: construction over a directory without dumped encoders fails.
C5_NoDatasetWithoutEncoders == it.pc = "ready" => it.has_enc

\* C8 as claimed: once the generators have run to exhaustion, or one has ended
\* with an error, the file handle is closed.
C8_ClosedOnExhaustion ==
    (it.has_file /\ (it.exhausted \/ it.error # "none")) => ~fh.open

\* C8 as amended: the file handle is closed when the dataset object is
\* discarded (__del__), and not before: exhaustion of the generators and errors
\* of iteration or construction leave it open until then.
C8_ClosedOnDiscardOnly ==
    /\ it.pc = "discarded" => ~fh.open
    /\ (it.has_file /\ it.pc \in {"ready", "failed"}) => fh.open
    /\ ~it.has_file => ~fh.open

\* a dataset discarded after its generators were exhausted
C8_Witness ==
    /\ it.pc = "discarded" /\ it.has_file /\ it.exhausted
    /\ Len(yielded) = 2 /\ ~fh.open

\* the encoders of the earlier run that left the initial directory
EarlierEncoders == {EncodersOf(c, FALSE) : c \in EarlierCorpora}

\* C9: whatever point persisting stops at, the three encoders an iterable
\* dataset loads come from one fitting pass: all from the earlier run, or all
\* from the map dataset.
C9_LoadsOnePass ==
    it.has_enc => (it.enc \in EarlierEncoders \/ it.enc = map.enc)

\* C10: over all generators of one iterable dataset, in any interleaving, the
\* sentences are yielded at most once each and in file order, and once the
\* file is exhausted no generator yields anything.
C10_SinglePass ==
    [][ /\ \A i \in 1..Len(yielded') :
              /\ yielded'[i].index < Len(corpus)
              /\ yielded'[i].rec.text = Text(corpus[yielded'[i].index + 1])
              /\ \A j \in 1..(i - 1) : yielded'[j].index < yielded'[i].index
        /\ it.exhausted => yielded' = yielded ]_vars

\* two generators, both finished, after the two sentences were yielded
C10_Witness ==
    /\ it.exhausted /\ Len(yielded) = 2
    /\ gens["g1"] = "finished" /\ gens["g2"] = "finished"
    /\ it.error = "none"

\* C4: the script computed from (s, t) keeps prefix + suffix within
\* min(len(s), len(t)), and applied to s it gives t, in both directions.
C4_RoundTrip ==
    /\ cpc \in {"computed", "applied"} =>
           cscript.pre + cscript.suf <= Min(Len(cs), Len(ct))
    /\ cpc = "applied" => cout = ct

\* "aa" -> "a" in the reverse direction: naive prefix and suffix overlap
C4_Witness ==
    /\ cpc = "applied" /\ crev
    /\ cs = <<97, 97>> /\ ct = <<97>> /\ cout = ct

====
